---- MODULE Spec2Model ----
(***************************************************************************)
(* GPU task queueing, dispatch and auto-scaling of the CPU server:         *)
(*   app/services/gpu_queue_manager.py  GPUQueueManager (Redis lists/keys) *)
(*   services/runpod_manager.py         RunPodManager (pod handles)        *)
(*   app/services/auto_scaler.py        AutoScaler, CostTracker            *)
(*   app/services/background_tasks.py   the loops and queue_gpu_task       *)
(*                                                                         *)
(* Every coroutine of these files runs on one asyncio event loop and       *)
(* suspends only at asyncio.sleep: the Redis client is the blocking one    *)
(* and the RunPodManager coroutines never suspend.  A handler is therefore *)
(* one atomic action, and a loop is one action per stretch between sleeps. *)
(* Handlers that only read (get_task_status, queue_gpu_task,               *)
(* get_gpu_task_status) are operators on the state they read.  Strings the *)
(* code builds by formatting are sequences of tokens.                      *)
(***************************************************************************)
EXTENDS Integers, Sequences, FiniteSets, Bags, TLC

VARIABLES
    now,                \* the reading of datetime.now(), in seconds
    clock_steps,        \* how often the clock has advanced (bounded)
    redis_lists,        \* Redis db 0: the two lists, head first
    redis_keys,         \* Redis db 0: the completed_<task_id> keys with their expiry
    queue_manager,      \* background_tasks.queue_manager: None or the GPUQueueManager
    auto_scaler,        \* background_tasks.auto_scaler: None or the AutoScaler
    runpod,             \* the pod handles of each RunPodManager object
    scaling_enabled,    \* GPUQueueManager.scaling_enabled of each GPUQueueManager
    enabled,            \* AutoScaler.enabled
    last_activity,      \* AutoScaler.last_video_activity / last_eval_activity
    cost,               \* CostTracker.current_daily_cost / current_monthly_cost (cents)
    monitor_pc,         \* position of AutoScaler.monitor_and_scale
    queue_loop_pc,      \* position of gpu_queue_processing_loop
    scaling_loop_pc,    \* position of auto_scaling_loop
    issued,             \* bag of the task ids the enqueue calls have returned
    dispatched          \* the last call of gpu_comm that has returned: <<>> or <<call>>

vars == <<now, clock_steps, redis_lists, redis_keys, queue_manager, auto_scaler,
          runpod, scaling_enabled, enabled, last_activity, cost, monitor_pc,
          queue_loop_pc, scaling_loop_pc, issued, dispatched>>

-----------------------------------------------------------------------------
(* Bounds of the model *)

MaxTasks == 2
MaxClockSteps == 2

(* Program constants; times in seconds, money in cents *)

RETENTION_TTL == 86400
idle_timeout == 300
video_scale_up_threshold == 1
eval_scale_up_threshold == 2
video_threshold == 1
eval_threshold == 2
daily_limit == 5000
monthly_limit == 50000
estimated_hourly_cost == 27

-----------------------------------------------------------------------------
(* Values *)

None == <<>>
NoTime == -1

VIDEO_GENERATION == "video_generation"
EVALUATION == "evaluation"
TaskType == {VIDEO_GENERATION, EVALUATION}

PENDING == "pending"
PROCESSING == "processing"
COMPLETED == "completed"
FAILED == "failed"
TaskStatus == {PENDING, PROCESSING, COMPLETED, FAILED}

\* The GPUQueueManager objects of the process and the RunPodManager objects.
BackgroundQM == "queue_manager"
ScalerQM == "auto_scaler.queue_manager"
QueueManagers == {BackgroundQM, ScalerQM}
ScalerRM == "auto_scaler.runpod_manager"
RunPodManagers == QueueManagers \cup {ScalerRM}

\* Inputs of the callers.
SessionIds == {<<"s1">>, <<"s2">>}
QuestionIds == {<<"q1">>}
Payloads == {<<171>>}
Results == {"video.mp4"}
\* The clock is read at events half a retention period apart (more than the idle timeout).
TimeSteps == {RETENTION_TTL \div 2}

-----------------------------------------------------------------------------
(* Conversions *)

HexDigit(n) == SubSeq(<<"0", "1", "2", "3", "4", "5", "6", "7", "8", "9",
                        "a", "b", "c", "d", "e", "f">>, n + 1, n + 1)

RECURSIVE hex(_)
hex(bytes) ==
    IF bytes = <<>> THEN <<>>
    ELSE HexDigit(Head(bytes) \div 16) \o HexDigit(Head(bytes) % 16) \o hex(Tail(bytes))

json_dumps(d) == <<"json", d>>
json_loads(s) == s[2]

\* datetime.now().timestamp() inside an f-string: digits and a point, no "_".
timestamp(t) == ToString(t)

video_task_id(session_id, t) == <<"video", "_">> \o session_id \o <<"_", timestamp(t)>>
eval_task_id(session_id, question_id, t) ==
    <<"eval", "_">> \o session_id \o <<"_">> \o question_id \o <<"_", timestamp(t)>>
completed_key(task_id) == <<"completed", "_">> \o task_id
pod_name(task_type, t) == <<"pod", "_", task_type, "_", timestamp(t)>>

queue_name(task_type) ==
    IF task_type = VIDEO_GENERATION THEN "video_generation_queue" ELSE "evaluation_queue"
QueueNames == {queue_name(t) : t \in TaskType}

-----------------------------------------------------------------------------
(* Redis *)

lpush(lists, name, item) == [lists EXCEPT ![name] = <<item>> \o @]
llen(lists, name) == Len(lists[name])
lrange_all(lists, name) == lists[name]

\* A key with an expiry is gone once its time to live has run out.
live_keys(keys, t) == {k \in keys : t < k.expire_at}
redis_get(keys, t, key) ==
    LET hit == {k \in live_keys(keys, t) : k.key = key}
    IN  IF hit = {} THEN None ELSE (CHOOSE k \in hit : TRUE).value
setex(keys, t, key, ttl, value) ==
    {k \in live_keys(keys, t) : k.key # key}
        \cup {[key |-> key, value |-> value, expire_at |-> t + ttl]}

-----------------------------------------------------------------------------
(* RunPodManager *)

NewRunPodManager == [video_pod_id |-> None, eval_pod_id |-> None]

pod_id_of(rm, task_type) ==
    IF task_type = VIDEO_GENERATION THEN rm.video_pod_id ELSE rm.eval_pod_id

get_pod_status(pod_id) == IF pod_id # None THEN "running" ELSE "stopped"

\* Mutant: the status is asked of the provider without looking at the handle.
get_video_server_status_no_handle_check(rm) == "running"

get_video_server_status(rm) ==
    IF rm.video_pod_id = None THEN "stopped" ELSE get_pod_status(rm.video_pod_id)

get_eval_server_status(rm) ==
    IF rm.eval_pod_id = None THEN "stopped" ELSE get_pod_status(rm.eval_pod_id)

\* The status of a class's server.
get_server_status(rm, task_type) ==
    IF task_type = VIDEO_GENERATION
    THEN get_video_server_status(rm) ELSE get_eval_server_status(rm)

\* Mutant: no early return when the class already holds a pod id.
start_gpu_server_always_new(rm, task_type, t) ==
    IF task_type = VIDEO_GENERATION
    THEN [rm EXCEPT !.video_pod_id = pod_name(task_type, t)]
    ELSE [rm EXCEPT !.eval_pod_id = pod_name(task_type, t)]

start_gpu_server(rm, task_type, t) ==
    IF pod_id_of(rm, task_type) # None THEN rm
    ELSE IF task_type = VIDEO_GENERATION
         THEN [rm EXCEPT !.video_pod_id = pod_name(task_type, t)]
         ELSE [rm EXCEPT !.eval_pod_id = pod_name(task_type, t)]

\* Mutant: the handles of both classes are cleared, whatever the class asked for.
stop_gpu_server_clears_both(rm, task_type) ==
    [rm EXCEPT !.video_pod_id = None, !.eval_pod_id = None]

stop_gpu_server(rm, task_type) ==
    IF pod_id_of(rm, task_type) = None THEN rm
    ELSE IF task_type = VIDEO_GENERATION
         THEN [rm EXCEPT !.video_pod_id = None]
         ELSE [rm EXCEPT !.eval_pod_id = None]

\* The value stop_gpu_server returns.
stop_gpu_server_returns(rm, task_type) ==
    IF pod_id_of(rm, task_type) = None THEN TRUE ELSE TRUE

-----------------------------------------------------------------------------
(* CostTracker *)

NewCostTracker == [current_daily_cost |-> 0, current_monthly_cost |-> 0]

\* Mutant: the estimated hourly cost is added to the limits, not to the totals.
can_start_instance_rate_added_to_limit(c) ==
    IF c.current_daily_cost > daily_limit + estimated_hourly_cost THEN FALSE
    ELSE IF c.current_monthly_cost > monthly_limit + estimated_hourly_cost THEN FALSE
    ELSE TRUE

\* Mutant: the monthly total is not looked at.
can_start_instance_daily_only(c) ==
    IF c.current_daily_cost + estimated_hourly_cost > daily_limit THEN FALSE
    ELSE TRUE

can_start_instance(c) ==
    IF c.current_daily_cost + estimated_hourly_cost > daily_limit THEN FALSE
    ELSE IF c.current_monthly_cost + estimated_hourly_cost > monthly_limit THEN FALSE
    ELSE TRUE

\* Mutant: every update adds the estimated hourly cost to both totals.
update_usage_adds_hourly_cost(c) ==
    [c EXCEPT !.current_daily_cost = @ + estimated_hourly_cost,
              !.current_monthly_cost = @ + estimated_hourly_cost]

update_usage(c) == c

\* The thresholds are the limits times 0.8, exact for both limits; the spend
\* has to be above a threshold, the threshold itself does not count.
approaching_limit(c) ==
    LET daily_threshold == (daily_limit * 8) \div 10
        monthly_threshold == (monthly_limit * 8) \div 10
    IN  \/ c.current_daily_cost > daily_threshold
        \/ c.current_monthly_cost > monthly_threshold

limit_exceeded(c) ==
    c.current_daily_cost > daily_limit \/ c.current_monthly_cost > monthly_limit

-----------------------------------------------------------------------------
(* GPUQueueManager *)

video_task_data(audio_data, session_id, t) ==
    [task_id |-> video_task_id(session_id, t),
     type |-> VIDEO_GENERATION,
     session_id |-> session_id,
     audio_data |-> hex(audio_data),
     created_at |-> t,
     status |-> PENDING,
     priority |-> "high"]

eval_task_data(video_data, session_id, question_id, t) ==
    [task_id |-> eval_task_id(session_id, question_id, t),
     type |-> EVALUATION,
     session_id |-> session_id,
     question_id |-> question_id,
     video_data |-> hex(video_data),
     created_at |-> t,
     status |-> PENDING,
     priority |-> "medium"]

\* Mutant: the threshold of the video class is used for both classes.
check_scaling_needs_one_threshold(rm, is_enabled, lists, task_type, t) ==
    IF ~is_enabled THEN rm
    ELSE LET queue_length == llen(lists, queue_name(task_type))
             server_status == IF task_type = VIDEO_GENERATION
                              THEN get_video_server_status(rm)
                              ELSE get_eval_server_status(rm)
         IN  IF queue_length >= video_threshold /\ server_status = "stopped"
             THEN start_gpu_server(rm, task_type, t)
             ELSE rm

\* check_scaling_needs: the pod handles of the manager's own RunPodManager afterwards.
check_scaling_needs(rm, is_enabled, lists, task_type, t) ==
    IF ~is_enabled THEN rm
    ELSE LET queue_length == llen(lists, queue_name(task_type))
             server_status == IF task_type = VIDEO_GENERATION
                              THEN get_video_server_status(rm)
                              ELSE get_eval_server_status(rm)
             threshold == IF task_type = VIDEO_GENERATION
                          THEN video_threshold ELSE eval_threshold
         IN  IF queue_length >= threshold /\ server_status = "stopped"
             THEN start_gpu_server(rm, task_type, t)
             ELSE rm

NotFound == [error |-> "Task not found"]

\* The first item of a list whose task_id is the one asked for, as <<item>>.
RECURSIVE find_task(_, _)
find_task(items, task_id) ==
    IF items = <<>> THEN <<>>
    ELSE IF json_loads(Head(items)).task_id = task_id THEN <<json_loads(Head(items))>>
    ELSE find_task(Tail(items), task_id)

\* Mutant: the pending queues are scanned before the completed record is read.
get_task_status_pending_first(keys, lists, t, task_id) ==
    LET completed_task == redis_get(keys, t, completed_key(task_id))
        in_video == find_task(lrange_all(lists, "video_generation_queue"), task_id)
        in_eval == find_task(lrange_all(lists, "evaluation_queue"), task_id)
    IN  IF in_video # <<>> THEN in_video[1]
        ELSE IF in_eval # <<>> THEN in_eval[1]
        ELSE IF completed_task # None THEN json_loads(completed_task)
        ELSE NotFound

\* Mutant: the scan of the pending queues stops after video_generation_queue.
get_task_status_video_queue_only(keys, lists, t, task_id) ==
    LET completed_task == redis_get(keys, t, completed_key(task_id))
        in_video == find_task(lrange_all(lists, "video_generation_queue"), task_id)
    IN  IF completed_task # None THEN json_loads(completed_task)
        ELSE IF in_video # <<>> THEN in_video[1]
        ELSE NotFound

get_task_status(keys, lists, t, task_id) ==
    LET completed_task == redis_get(keys, t, completed_key(task_id))
        in_video == find_task(lrange_all(lists, "video_generation_queue"), task_id)
        in_eval == find_task(lrange_all(lists, "evaluation_queue"), task_id)
    IN  IF completed_task # None THEN json_loads(completed_task)
        ELSE IF in_video # <<>> THEN in_video[1]
        ELSE IF in_eval # <<>> THEN in_eval[1]
        ELSE NotFound

\* Mutant: the record of a completion keeps the status of a pending task.
result_data_status_pending(task_id, result, t) ==
    [task_id |-> task_id, status |-> PENDING, result |-> result, completed_at |-> t]

result_data(task_id, result, t) ==
    [task_id |-> task_id, status |-> COMPLETED, result |-> result, completed_at |-> t]

mark_task_completed(keys, t, task_id, result) ==
    setex(keys, t, completed_key(task_id), RETENTION_TTL,
          json_dumps(result_data(task_id, result, t)))

-----------------------------------------------------------------------------
(* AutoScaler: one pass of the body of monitor_and_scale, on the record     *)
(* [runpod_manager, cost_tracker, enabled, last_video_activity,             *)
(*  last_eval_activity] of the AutoScaler's fields                          *)

\* Mutant: the start is issued without asking can_start_instance.
check_video_scaling_no_cost_check(s, lists, t) ==
    LET queue_length == llen(lists, "video_generation_queue")
        server_status == get_video_server_status(s.runpod_manager)
        s1 == IF /\ queue_length >= video_scale_up_threshold
                 /\ server_status = "stopped"
              THEN [s EXCEPT
                      !.runpod_manager = start_gpu_server(@, VIDEO_GENERATION, t),
                      !.last_video_activity = t]
              ELSE s
    IN  IF queue_length > 0 THEN [s1 EXCEPT !.last_video_activity = t] ELSE s1

check_video_scaling(s, lists, t) ==
    LET queue_length == llen(lists, "video_generation_queue")
        server_status == get_video_server_status(s.runpod_manager)
        s1 == IF /\ queue_length >= video_scale_up_threshold
                 /\ server_status = "stopped"
                 /\ can_start_instance(s.cost_tracker)
              THEN [s EXCEPT
                      !.runpod_manager = start_gpu_server(@, VIDEO_GENERATION, t),
                      !.last_video_activity = t]
              ELSE s
    IN  IF queue_length > 0 THEN [s1 EXCEPT !.last_video_activity = t] ELSE s1

\* Mutant: the activity time is recorded only when a start is issued.
check_eval_scaling_refresh_on_start_only(s, lists, t) ==
    LET queue_length == llen(lists, "evaluation_queue")
        server_status == get_eval_server_status(s.runpod_manager)
    IN  IF /\ queue_length >= eval_scale_up_threshold
           /\ server_status = "stopped"
           /\ can_start_instance(s.cost_tracker)
        THEN [s EXCEPT
                !.runpod_manager = start_gpu_server(@, EVALUATION, t),
                !.last_eval_activity = t]
        ELSE s

check_eval_scaling(s, lists, t) ==
    LET queue_length == llen(lists, "evaluation_queue")
        server_status == get_eval_server_status(s.runpod_manager)
        s1 == IF /\ queue_length >= eval_scale_up_threshold
                 /\ server_status = "stopped"
                 /\ can_start_instance(s.cost_tracker)
              THEN [s EXCEPT
                      !.runpod_manager = start_gpu_server(@, EVALUATION, t),
                      !.last_eval_activity = t]
              ELSE s
    IN  IF queue_length > 0 THEN [s1 EXCEPT !.last_eval_activity = t] ELSE s1

\* Mutant: the idle stop leaves the activity times as they were.
check_scale_down_keeps_activity(s, lists, t) ==
    LET s1 == IF /\ s.last_video_activity # NoTime
                 /\ t - s.last_video_activity > idle_timeout
                 /\ llen(lists, "video_generation_queue") = 0
              THEN [s EXCEPT !.runpod_manager = stop_gpu_server(@, VIDEO_GENERATION)]
              ELSE s
    IN  IF /\ s1.last_eval_activity # NoTime
           /\ t - s1.last_eval_activity > idle_timeout
           /\ llen(lists, "evaluation_queue") = 0
        THEN [s1 EXCEPT !.runpod_manager = stop_gpu_server(@, EVALUATION)]
        ELSE s1

\* Mutant: the idle stop does not look at the queue.
check_scale_down_ignores_queue(s, lists, t) ==
    LET s1 == IF /\ s.last_video_activity # NoTime
                 /\ t - s.last_video_activity > idle_timeout
              THEN [s EXCEPT
                      !.runpod_manager = stop_gpu_server(@, VIDEO_GENERATION),
                      !.last_video_activity = NoTime]
              ELSE s
    IN  IF /\ s1.last_eval_activity # NoTime
           /\ t - s1.last_eval_activity > idle_timeout
        THEN [s1 EXCEPT
                !.runpod_manager = stop_gpu_server(@, EVALUATION),
                !.last_eval_activity = NoTime]
        ELSE s1

\* Mutant: the idle stop of the video class also clears the evaluation class's
\* activity time.
check_scale_down_video_resets_eval(s, lists, t) ==
    LET s1 == IF /\ s.last_video_activity # NoTime
                 /\ t - s.last_video_activity > idle_timeout
                 /\ llen(lists, "video_generation_queue") = 0
              THEN [s EXCEPT
                      !.runpod_manager = stop_gpu_server(@, VIDEO_GENERATION),
                      !.last_video_activity = NoTime,
                      !.last_eval_activity = NoTime]
              ELSE s
    IN  IF /\ s1.last_eval_activity # NoTime
           /\ t - s1.last_eval_activity > idle_timeout
           /\ llen(lists, "evaluation_queue") = 0
        THEN [s1 EXCEPT
                !.runpod_manager = stop_gpu_server(@, EVALUATION),
                !.last_eval_activity = NoTime]
        ELSE s1

check_scale_down(s, lists, t) ==
    LET s1 == IF /\ s.last_video_activity # NoTime
                 /\ t - s.last_video_activity > idle_timeout
                 /\ llen(lists, "video_generation_queue") = 0
              THEN [s EXCEPT
                      !.runpod_manager = stop_gpu_server(@, VIDEO_GENERATION),
                      !.last_video_activity = NoTime]
              ELSE s
    IN  IF /\ s1.last_eval_activity # NoTime
           /\ t - s1.last_eval_activity > idle_timeout
           /\ llen(lists, "evaluation_queue") = 0
        THEN [s1 EXCEPT
                !.runpod_manager = stop_gpu_server(@, EVALUATION),
                !.last_eval_activity = NoTime]
        ELSE s1

emergency_shutdown(s) ==
    [s EXCEPT
       !.runpod_manager = stop_gpu_server(stop_gpu_server(@, VIDEO_GENERATION), EVALUATION),
       !.enabled = FALSE]

update_cost_tracking(s) ==
    LET s1 == [s EXCEPT !.cost_tracker = update_usage(@)]
    IN  IF limit_exceeded(s1.cost_tracker) THEN emergency_shutdown(s1) ELSE s1

monitor_pass(s, lists, t) ==
    update_cost_tracking(
        check_scale_down(
            check_eval_scaling(
                check_video_scaling(s, lists, t), lists, t), lists, t))

-----------------------------------------------------------------------------
(* background_tasks *)

GPUQueueManagerMethods ==
    {"queue_video_generation", "queue_evaluation", "check_scaling_needs",
     "get_task_status", "mark_task_completed", "process_queue"}

\* queue_gpu_task: the exception the call raises, or that it returns add_task's value.
queue_gpu_task(qm, task_type) ==
    IF qm = None THEN [raised |-> "RuntimeError"]
    ELSE IF "add_task" \notin GPUQueueManagerMethods THEN [raised |-> "AttributeError"]
    ELSE [returned |-> "add_task", type |-> task_type]

\* get_gpu_task_status: the exception the call raises, or the view it returns.
get_gpu_task_status(qm, keys, lists, t, task_id) ==
    IF qm = None THEN [raised |-> "RuntimeError"]
    ELSE get_task_status(keys, lists, t, task_id)

\* The GPUQueueManager objects that exist.
Constructed(m) ==
    IF m = BackgroundQM THEN queue_manager # None ELSE auto_scaler # None

-----------------------------------------------------------------------------
(* State after the modules are imported *)

Init ==
    /\ now = 0
    /\ clock_steps = 0
    /\ redis_lists = [q \in QueueNames |-> <<>>]
    /\ redis_keys = {}
    /\ queue_manager = None
    /\ auto_scaler = None
    /\ runpod = [r \in RunPodManagers |-> NewRunPodManager]
    /\ scaling_enabled = [m \in QueueManagers |-> TRUE]
    /\ enabled = TRUE
    /\ last_activity = [t \in TaskType |-> NoTime]
    /\ cost = NewCostTracker
    /\ monitor_pc = "not_called"
    /\ queue_loop_pc = "not_started"
    /\ scaling_loop_pc = "not_started"
    /\ issued = EmptyBag
    /\ dispatched = <<>>

-----------------------------------------------------------------------------
(* Actions *)

\* start_background_tasks, called once by the application's lifespan.
StartBackgroundTasks ==
    /\ queue_manager = None
    /\ queue_manager' = <<"GPUQueueManager">>
    /\ auto_scaler' = <<"AutoScaler">>
    /\ queue_loop_pc' = "waiting"
    /\ scaling_loop_pc' = "waiting"
    /\ UNCHANGED <<now, clock_steps, redis_lists, redis_keys, runpod, scaling_enabled,
                   enabled, last_activity, cost, monitor_pc, issued, dispatched>>

\* The clock moves on; Redis drops the keys whose time to live has run out.
AdvanceClock ==
    /\ clock_steps < MaxClockSteps
    /\ \E d \in TimeSteps :
         /\ now' = now + d
         /\ redis_keys' = live_keys(redis_keys, now + d)
    /\ clock_steps' = clock_steps + 1
    /\ UNCHANGED <<redis_lists, queue_manager, auto_scaler, runpod, scaling_enabled,
                   enabled, last_activity, cost, monitor_pc, queue_loop_pc,
                   scaling_loop_pc, issued, dispatched>>

Enqueue(m, task_type, task_data) ==
    LET lists == lpush(redis_lists, queue_name(task_type), json_dumps(task_data))
    IN  /\ Constructed(m)
        /\ BagCardinality(issued) < MaxTasks
        /\ redis_lists' = lists
        /\ runpod' = [runpod EXCEPT ![m] =
                        check_scaling_needs(@, scaling_enabled[m], lists, task_type, now)]
        /\ issued' = issued (+) SetToBag({task_data.task_id})
        /\ UNCHANGED <<now, clock_steps, redis_keys, queue_manager, auto_scaler,
                       scaling_enabled, enabled, last_activity, cost, monitor_pc,
                       queue_loop_pc, scaling_loop_pc, dispatched>>

QueueVideoGeneration ==
    \E audio_data \in Payloads, session_id \in SessionIds :
        Enqueue(BackgroundQM, VIDEO_GENERATION, video_task_data(audio_data, session_id, now))

QueueEvaluation ==
    \E video_data \in Payloads, session_id \in SessionIds, question_id \in QuestionIds :
        Enqueue(BackgroundQM, EVALUATION, eval_task_data(video_data, session_id, question_id, now))

\* Mutant: the completion also takes the task off the pending queues.
MarkTaskCompleted_removes_pending ==
    /\ queue_manager # None
    /\ \E task_id \in BagToSet(issued), result \in Results :
         /\ redis_keys' = mark_task_completed(redis_keys, now, task_id, result)
         /\ redis_lists' = [q \in QueueNames |->
                               SelectSeq(redis_lists[q],
                                         LAMBDA item : json_loads(item).task_id # task_id)]
    /\ UNCHANGED <<now, clock_steps, queue_manager, auto_scaler, runpod,
                   scaling_enabled, enabled, last_activity, cost, monitor_pc,
                   queue_loop_pc, scaling_loop_pc, issued, dispatched>>

MarkTaskCompleted ==
    /\ queue_manager # None
    /\ \E task_id \in BagToSet(issued), result \in Results :
         redis_keys' = mark_task_completed(redis_keys, now, task_id, result)
    /\ UNCHANGED <<now, clock_steps, redis_lists, queue_manager, auto_scaler, runpod,
                   scaling_enabled, enabled, last_activity, cost, monitor_pc,
                   queue_loop_pc, scaling_loop_pc, issued, dispatched>>

\* gpu_queue_processing_loop: into process_queue (up to its sleep(1)) ...
QueueLoopProcess ==
    /\ queue_loop_pc = "waiting"
    /\ queue_loop_pc' = "process_queue"
    /\ UNCHANGED <<now, clock_steps, redis_lists, redis_keys, queue_manager, auto_scaler,
                   runpod, scaling_enabled, enabled, last_activity, cost, monitor_pc,
                   scaling_loop_pc, issued, dispatched>>

\* ... and out of it, into the loop's sleep(10).
QueueLoopSleep ==
    /\ queue_loop_pc = "process_queue"
    /\ queue_loop_pc' = "waiting"
    /\ UNCHANGED <<now, clock_steps, redis_lists, redis_keys, queue_manager, auto_scaler,
                   runpod, scaling_enabled, enabled, last_activity, cost, monitor_pc,
                   scaling_loop_pc, issued, dispatched>>

\* auto_scaling_loop: into check_and_scale (up to its sleep(1)) ...
ScalingLoopCheck ==
    /\ scaling_loop_pc = "waiting"
    /\ scaling_loop_pc' = "check_and_scale"
    /\ UNCHANGED <<now, clock_steps, redis_lists, redis_keys, queue_manager, auto_scaler,
                   runpod, scaling_enabled, enabled, last_activity, cost, monitor_pc,
                   queue_loop_pc, issued, dispatched>>

\* ... and out of it, into the loop's sleep(60).
ScalingLoopSleep ==
    /\ scaling_loop_pc = "check_and_scale"
    /\ scaling_loop_pc' = "waiting"
    /\ UNCHANGED <<now, clock_steps, redis_lists, redis_keys, queue_manager, auto_scaler,
                   runpod, scaling_enabled, enabled, last_activity, cost, monitor_pc,
                   queue_loop_pc, issued, dispatched>>

\* A caller awaits auto_scaler.monitor_and_scale().
MonitorCall ==
    /\ auto_scaler # None
    /\ monitor_pc = "not_called"
    /\ monitor_pc' = "loop"
    /\ UNCHANGED <<now, clock_steps, redis_lists, redis_keys, queue_manager, auto_scaler,
                   runpod, scaling_enabled, enabled, last_activity, cost,
                   queue_loop_pc, scaling_loop_pc, issued, dispatched>>

ScalerFields ==
    [runpod_manager |-> runpod[ScalerRM],
     cost_tracker |-> cost,
     enabled |-> enabled,
     last_video_activity |-> last_activity[VIDEO_GENERATION],
     last_eval_activity |-> last_activity[EVALUATION]]

\* Mutant: the AutoScaler works on the RunPodManager of the background queue
\* manager instead of one of its own.
MonitorTick_on_queue_manager_pods ==
    /\ monitor_pc = "loop"
    /\ IF enabled
       THEN LET s == monitor_pass([ScalerFields EXCEPT
                                     !.runpod_manager = runpod[BackgroundQM]],
                                  redis_lists, now)
            IN  /\ runpod' = [runpod EXCEPT ![BackgroundQM] = s.runpod_manager]
                /\ cost' = s.cost_tracker
                /\ enabled' = s.enabled
                /\ last_activity' = [last_activity EXCEPT
                                       ![VIDEO_GENERATION] = s.last_video_activity,
                                       ![EVALUATION] = s.last_eval_activity]
                /\ UNCHANGED monitor_pc
       ELSE /\ monitor_pc' = "returned"
            /\ UNCHANGED <<runpod, cost, enabled, last_activity>>
    /\ UNCHANGED <<now, clock_steps, redis_lists, redis_keys, queue_manager, auto_scaler,
                   scaling_enabled, queue_loop_pc, scaling_loop_pc, issued, dispatched>>

\* Mutant: the loop is "while True": a pass runs whatever self.enabled is.
MonitorTick_ignores_enabled ==
    /\ monitor_pc = "loop"
    /\ LET s == monitor_pass(ScalerFields, redis_lists, now)
       IN  /\ runpod' = [runpod EXCEPT ![ScalerRM] = s.runpod_manager]
           /\ cost' = s.cost_tracker
           /\ enabled' = s.enabled
           /\ last_activity' = [last_activity EXCEPT
                                  ![VIDEO_GENERATION] = s.last_video_activity,
                                  ![EVALUATION] = s.last_eval_activity]
           /\ UNCHANGED monitor_pc
    /\ UNCHANGED <<now, clock_steps, redis_lists, redis_keys, queue_manager, auto_scaler,
                   scaling_enabled, queue_loop_pc, scaling_loop_pc, issued, dispatched>>

\* monitor_and_scale from its "while self.enabled" to its sleep(30), or to its return.
MonitorTick ==
    /\ monitor_pc = "loop"
    /\ IF enabled
       THEN LET s == monitor_pass(ScalerFields, redis_lists, now)
            IN  /\ runpod' = [runpod EXCEPT ![ScalerRM] = s.runpod_manager]
                /\ cost' = s.cost_tracker
                /\ enabled' = s.enabled
                /\ last_activity' = [last_activity EXCEPT
                                       ![VIDEO_GENERATION] = s.last_video_activity,
                                       ![EVALUATION] = s.last_eval_activity]
                /\ UNCHANGED monitor_pc
       ELSE /\ monitor_pc' = "returned"
            /\ UNCHANGED <<runpod, cost, enabled, last_activity>>
    /\ UNCHANGED <<now, clock_steps, redis_lists, redis_keys, queue_manager, auto_scaler,
                   scaling_enabled, queue_loop_pc, scaling_loop_pc, issued, dispatched>>

Next ==
    \/ StartBackgroundTasks
    \/ AdvanceClock
    \/ QueueVideoGeneration
    \/ QueueEvaluation
    \/ MarkTaskCompleted
    \/ QueueLoopProcess
    \/ QueueLoopSleep
    \/ ScalingLoopCheck
    \/ ScalingLoopSleep
    \/ MonitorCall
    \/ MonitorTick

Spec == Init /\ [][Next]_vars

\* The loops of start_background_tasks are asyncio tasks: each one runs again after
\* its sleep.  monitor_and_scale, once awaited, loops in the same way.
FairSpec ==
    /\ Spec
    /\ WF_vars(QueueLoopProcess)
    /\ WF_vars(QueueLoopSleep)
    /\ WF_vars(ScalingLoopCheck)
    /\ WF_vars(ScalingLoopSleep)
    /\ WF_vars(MonitorTick)

\* The CostTracker's totals are plain fields that update_usage leaves alone: a
\* behaviour of the program keeps the totals it was given.  CostSpec gives the
\* tracker each of these totals in turn, at and around the two limits.
CostStates ==
    {[current_daily_cost |-> d, current_monthly_cost |-> m] :
        d \in {0, (daily_limit * 8) \div 10,
                  daily_limit - estimated_hourly_cost,
                  daily_limit - estimated_hourly_cost + 1, daily_limit + 1},
        m \in {0}}
    \cup
    {[current_daily_cost |-> d, current_monthly_cost |-> m] :
        d \in {0},
        m \in {(monthly_limit * 8) \div 10,
                  monthly_limit - estimated_hourly_cost,
                  monthly_limit - estimated_hourly_cost + 1, monthly_limit + 1}}

CostInit ==
    /\ now = 0
    /\ clock_steps = 0
    /\ redis_lists = [q \in QueueNames |-> <<>>]
    /\ redis_keys = {}
    /\ queue_manager = None
    /\ auto_scaler = None
    /\ runpod = [r \in RunPodManagers |-> NewRunPodManager]
    /\ scaling_enabled = [m \in QueueManagers |-> TRUE]
    /\ enabled = TRUE
    /\ last_activity = [t \in TaskType |-> NoTime]
    /\ cost \in CostStates
    /\ monitor_pc = "not_called"
    /\ queue_loop_pc = "not_started"
    /\ scaling_loop_pc = "not_started"
    /\ issued = EmptyBag
    /\ dispatched = <<>>

\* The operations that read or write the pod handles, the activity times, the
\* cost totals or the enabled flag.
ScalingNext ==
    \/ StartBackgroundTasks
    \/ AdvanceClock
    \/ QueueVideoGeneration
    \/ QueueEvaluation
    \/ MonitorCall
    \/ MonitorTick

CostSpec == CostInit /\ [][ScalingNext]_vars

-----------------------------------------------------------------------------
(* What a caller observes *)

\* get_task_status(task_id) in the current state.
StatusView(task_id) == get_task_status(redis_keys, redis_lists, now, task_id)

\* The ids the enqueue calls have returned.
IssuedIds == BagToSet(issued)

\* The items of a class's pending queue that carry an id.
Pending(task_type, task_id) ==
    {i \in 1..Len(redis_lists[queue_name(task_type)]) :
        json_loads(redis_lists[queue_name(task_type)][i]).task_id = task_id}

InSomeQueue(task_id) == \E t \in TaskType : Pending(t, task_id) # {}

\* The retained completed record of an id, if any.
Retained(task_id) == redis_get(redis_keys, now, completed_key(task_id))

HasStatus(view, statuses) == "status" \in DOMAIN view /\ view.status \in statuses

\* The step is an enqueue into the queue of a class.
EnqueueStep(task_type) ==
    Len(redis_lists'[queue_name(task_type)]) > Len(redis_lists[queue_name(task_type)])

\* The task id an enqueue step has returned.
EnqueuedId(task_type) == json_loads(Head(redis_lists'[queue_name(task_type)])).task_id

\* The step is mark_task_completed(task_id, result) for some result.
MarkStep(task_id) ==
    /\ \E result \in Results :
         redis_keys' = mark_task_completed(redis_keys, now, task_id, result)
    /\ UNCHANGED <<now, redis_lists>>

-----------------------------------------------------------------------------
(* Claims *)

\* C1: concurrent enqueues never lose a task and never hand out a task id twice:
\* every returned id is returned by one call only, and its task is in the queue
\* of its class.
C1_NoLostTaskNoDuplicateId ==
    \A task_id \in IssuedIds :
        /\ CopiesIn(task_id, issued) = 1
        /\ \E t \in TaskType : Cardinality(Pending(t, task_id)) = 1

\* C2: get_task_status called right after an enqueue returns the task as PENDING,
\* with neither a result nor an error.
C2_PendingRightAfterEnqueue ==
    [][\A t \in TaskType :
          EnqueueStep(t) =>
              LET view == get_task_status(redis_keys', redis_lists', now', EnqueuedId(t))
              IN  /\ HasStatus(view, {PENDING})
                  /\ "result" \notin DOMAIN view
                  /\ "error" \notin DOMAIN view]_vars

\* C3: once the queue manager is initialized, queue_gpu_task returns a task id
\* (it raises nothing) for either task class.
C3_QueueGpuTaskReturnsTaskId ==
    queue_manager # None =>
        \A t \in TaskType : "raised" \notin DOMAIN queue_gpu_task(queue_manager, t)

\* C4: a status query finds every task that has been enqueued and is pending or
\* was completed less than 24h ago: it never answers not-found for it.
C4_StatusAlwaysAnswerable ==
    \A task_id \in IssuedIds :
        /\ StatusView(task_id) # NotFound
        /\ StatusView(task_id).task_id = task_id

\* C4 witness: time has passed, one task is pending with no completed record and
\* another one has a retained completed record.
C4_Witness ==
    /\ now > 0
    /\ \E a, b \in IssuedIds :
         /\ Retained(a) = None /\ InSomeQueue(a)
         /\ Retained(b) # None /\ json_loads(Retained(b)).completed_at < now

\* C5: once the retention of a completed task has run out, get_task_status answers
\* not-found for it.
C5_NotFoundAfterRetention ==
    [][\A task_id \in IssuedIds :
          (Retained(task_id) # None /\ Retained(task_id)' = None)
              => StatusView(task_id)' = NotFound]_vars

\* C6: after mark_task_completed(task_id, result) the task is in no pending queue
\* and a completed record with a 24h time to live exists.
C6_CompleteRemovesFromPending ==
    [][\A task_id \in IssuedIds :
          MarkStep(task_id) =>
              /\ ~InSomeQueue(task_id)'
              /\ \E k \in redis_keys' :
                   /\ k.key = completed_key(task_id)
                   /\ k.expire_at = now' + RETENTION_TTL
                   /\ HasStatus(json_loads(k.value), {COMPLETED})]_vars

\* C7: no transition leaves a terminal state: a task a status query reports as
\* COMPLETED or FAILED is not reported as PENDING or PROCESSING one step later.
C7_TerminalIsFinal ==
    [][\A task_id \in IssuedIds :
          HasStatus(StatusView(task_id), {COMPLETED, FAILED})
              => ~HasStatus(StatusView(task_id)', {PENDING, PROCESSING})]_vars

\* C8: with the loops running, the first enqueued VIDEO_GENERATION task eventually
\* has status COMPLETED with a result and completed_at.
OldestVideoTask ==
    json_loads(redis_lists["video_generation_queue"]
                   [Len(redis_lists["video_generation_queue"])]).task_id

C8_VideoTaskEventuallyCompleted ==
    (redis_lists["video_generation_queue"] # <<>>)
        ~> (/\ redis_lists["video_generation_queue"] # <<>>
            /\ HasStatus(StatusView(OldestVideoTask), {COMPLETED})
            /\ {"result", "completed_at"} \subseteq DOMAIN StatusView(OldestVideoTask))

\* C10: at most one pod handle per task class is non-empty, counting the handles of
\* every RunPodManager of the process.
C10_OneInstancePerClass ==
    \A t \in TaskType :
        Cardinality({r \in RunPodManagers : pod_id_of(runpod[r], t) # None}) <= 1

-----------------------------------------------------------------------------
(* What a step does to the pod handles *)

\* The step issues start_gpu_server for a class on a RunPodManager whose handle
\* of the class is empty: a pod is created.
StartIssued(r, task_type) ==
    /\ pod_id_of(runpod[r], task_type) = None
    /\ pod_id_of(runpod'[r], task_type) # None

\* The step clears the handle of a class on a RunPodManager: a pod is stopped.
StopIssued(r, task_type) ==
    /\ pod_id_of(runpod[r], task_type) # None
    /\ pod_id_of(runpod'[r], task_type) = None

\* The step is one pass of the body of monitor_and_scale's loop.
TickPass == monitor_pc = "loop" /\ enabled /\ MonitorTick

C12_CanStartInstance ==
    can_start_instance(cost) =
        ~ \/ cost.current_daily_cost + estimated_hourly_cost > daily_limit
          \/ cost.current_monthly_cost + estimated_hourly_cost > monthly_limit

\* A tick has asked can_start_instance for a video instance (the queue holds a
\* task, the AutoScaler's handle is empty) and the answer was false because of
\* the monthly total alone.
C12_Witness ==
    /\ last_activity[VIDEO_GENERATION] # NoTime
    /\ runpod[ScalerRM].video_pod_id = None
    /\ cost.current_daily_cost + estimated_hourly_cost <= daily_limit
    /\ cost.current_monthly_cost + estimated_hourly_cost > monthly_limit
    /\ ~can_start_instance(cost)

-----------------------------------------------------------------------------
(* RunPodManager calls made on the handles the program holds *)

\* The times at which a call made from the current state on can run.
CallTimes == {now} \cup {now + d : d \in TimeSteps}

\* C15: start_gpu_server called twice for a class, with no stop between the two
\* calls, returns the provider id of the first call again and leaves the
\* handles as the first call left them (no second instance); the cost totals
\* are what they were at construction.
C15_StartIdempotent ==
    /\ \A r \in RunPodManagers, task_type \in TaskType, t1 \in CallTimes :
         LET once == start_gpu_server(runpod[r], task_type, t1)
         IN  /\ pod_id_of(once, task_type) # None
             /\ \A t2 \in {t \in CallTimes : t >= t1} :
                  LET twice == start_gpu_server(once, task_type, t2)
                  IN  /\ pod_id_of(twice, task_type) = pod_id_of(once, task_type)
                      /\ twice = once
    /\ cost = NewCostTracker

\* A pod started at time 0 by an enqueue is held, and the clock has moved on, so
\* that a second start would build another id if it built one.
C15_Witness ==
    /\ runpod[BackgroundQM].video_pod_id = pod_name(VIDEO_GENERATION, 0)
    /\ now > 0
    /\ start_gpu_server(runpod[BackgroundQM], VIDEO_GENERATION, now) = runpod[BackgroundQM]

\* C16: stop_gpu_server on a class whose handle is empty returns true and
\* changes nothing; a stop followed by a second stop of the same class leaves
\* the handles as the first stop left them, with the class's handle empty, and
\* both calls return true.
C16_StopIdempotent ==
    \A r \in RunPodManagers, task_type \in TaskType :
        LET rm == runpod[r]
            once == stop_gpu_server(rm, task_type)
            twice == stop_gpu_server(once, task_type)
        IN  /\ stop_gpu_server_returns(rm, task_type)
            /\ stop_gpu_server_returns(once, task_type)
            /\ pod_id_of(rm, task_type) = None => once = rm
            /\ pod_id_of(once, task_type) = None
            /\ twice = once

\* emergency_shutdown has called stop_gpu_server on the AutoScaler's two empty
\* handles, and the queue manager's RunPodManager holds a video pod and no
\* evaluation pod: a stop of either class of it is one of the claim's two cases.
C16_Witness ==
    /\ ~enabled
    /\ runpod[ScalerRM] = NewRunPodManager
    /\ runpod[BackgroundQM].video_pod_id # None
    /\ runpod[BackgroundQM].eval_pod_id = None

\* C17: the status of a class is stopped whenever no provider id is held for
\* it, and one of stopped, starting, running, stopping otherwise; directly
\* after a stop that returned true the status is stopped and the handle is
\* cleared.
C17_StatusInvariants ==
    \A r \in RunPodManagers, task_type \in TaskType :
        LET rm == runpod[r]
            stopped == stop_gpu_server(rm, task_type)
        IN  /\ pod_id_of(rm, task_type) = None =>
                   get_server_status(rm, task_type) = "stopped"
            /\ get_server_status(rm, task_type)
                   \in {"stopped", "starting", "running", "stopping"}
            /\ stop_gpu_server_returns(rm, task_type) =>
                   /\ get_server_status(stopped, task_type) = "stopped"
                   /\ pod_id_of(stopped, task_type) = None

\* One RunPodManager holds an evaluation pod and reports running, another holds
\* none and reports stopped, and an emergency shutdown has stopped the latter.
C17_Witness ==
    /\ get_server_status(runpod[BackgroundQM], EVALUATION) = "running"
    /\ get_server_status(runpod[BackgroundQM], VIDEO_GENERATION) = "stopped"
    /\ get_server_status(runpod[ScalerRM], EVALUATION) = "stopped"
    /\ ~enabled

-----------------------------------------------------------------------------
(* The AutoScaler's ticks *)

scale_up_threshold(task_type) ==
    IF task_type = VIDEO_GENERATION
    THEN video_scale_up_threshold ELSE eval_scale_up_threshold

\* The three conditions of a scale-up, in the state a tick starts from.
ScaleUpDue(task_type) ==
    /\ llen(redis_lists, queue_name(task_type)) >= scale_up_threshold(task_type)
    /\ get_server_status(runpod[ScalerRM], task_type) = "stopped"
    /\ can_start_instance(cost)

\* C18: for each class, a tick starts an instance and records the current time
\* as the class's last activity exactly when the queue length has reached the
\* class's threshold (1 for video, 2 for evaluation), the status is stopped and
\* can_start_instance returns true; otherwise the tick starts no instance of
\* the class.
C18_TickScaleUpPolicy ==
    [][TickPass =>
          \A task_type \in TaskType :
              /\ ScaleUpDue(task_type) =>
                     /\ StartIssued(ScalerRM, task_type)
                     /\ last_activity'[task_type] = now
              /\ ~ScaleUpDue(task_type) =>
                     \A r \in RunPodManagers : ~StartIssued(r, task_type)]_vars

\* A tick has started a video instance, and a tick has seen one evaluation
\* task, below the threshold of 2, and started no evaluation instance.
C18_Witness ==
    /\ runpod[ScalerRM].video_pod_id # None
    /\ llen(redis_lists, "evaluation_queue") = 1
    /\ last_activity[EVALUATION] # NoTime
    /\ runpod[ScalerRM].eval_pod_id = None

\* C20: in every tick in which a class's queue is non-empty the class's last
\* activity is set to the current time, whether or not a start was issued, and
\* the idle timer does not fire: the tick's scale-down stops no instance of the
\* class (only an emergency shutdown may).
C20_ActivityRefresh ==
    [][TickPass =>
          \A task_type \in TaskType :
              llen(redis_lists, queue_name(task_type)) > 0 =>
                  /\ last_activity'[task_type] = now
                  /\ limit_exceeded(cost) \/ ~StopIssued(ScalerRM, task_type)]_vars

\* A video instance started at time 0 is still held after a tick that ran more
\* than idle_timeout later with the video queue non-empty: the tick issued no
\* start and set the last activity to its own time.
C20_Witness ==
    /\ runpod[ScalerRM].video_pod_id = pod_name(VIDEO_GENERATION, 0)
    /\ llen(redis_lists, "video_generation_queue") > 0
    /\ now > idle_timeout
    /\ last_activity[VIDEO_GENERATION] = now

-----------------------------------------------------------------------------
(* Idle scale-down.  No operation of the program takes a task off a pending  *)
(* queue; the specification's complete operation does, and so does whatever  *)
(* consumes the Redis lists.  DrainSpec adds that removal to the program's   *)
(* operations, so that a queue can be empty after it has held a task.        *)

\* The oldest task of a class's pending queue is taken off the queue.
PendingRemoved(task_type) ==
    /\ redis_lists[queue_name(task_type)] # <<>>
    /\ redis_lists' = [redis_lists EXCEPT ![queue_name(task_type)] =
                           SubSeq(@, 1, Len(@) - 1)]
    /\ UNCHANGED <<now, clock_steps, redis_keys, queue_manager, auto_scaler, runpod,
                   scaling_enabled, enabled, last_activity, cost, monitor_pc,
                   queue_loop_pc, scaling_loop_pc, issued, dispatched>>

DrainNext ==
    \/ ScalingNext
    \/ \E task_type \in TaskType : PendingRemoved(task_type)

DrainSpec == Init /\ [][DrainNext]_vars

\* The conditions of an idle scale-down, in the state a tick starts from.
IdleDue(task_type) ==
    /\ get_server_status(runpod[ScalerRM], task_type) = "running"
    /\ llen(redis_lists, queue_name(task_type)) = 0
    /\ last_activity[task_type] # NoTime
    /\ now - last_activity[task_type] > idle_timeout

-----------------------------------------------------------------------------
(* Exceptions.  The calls of a pass or of an enqueue that can raise are the  *)
(* reads of Redis (redis-py raises when the server cannot be reached); the   *)
(* RunPodManager and CostTracker methods make no outside call.               *)

\* The Redis reads of one pass of monitor_and_scale, in the order it makes them.
TickReads ==
    {"check_video_scaling.llen", "check_eval_scaling.llen",
     "check_scale_down.video.llen", "check_scale_down.eval.llen"}

\* The first half of check_scale_down.
check_scale_down_video(s, lists, t) ==
    IF /\ s.last_video_activity # NoTime
       /\ t - s.last_video_activity > idle_timeout
       /\ llen(lists, "video_generation_queue") = 0
    THEN [s EXCEPT
            !.runpod_manager = stop_gpu_server(@, VIDEO_GENERATION),
            !.last_video_activity = NoTime]
    ELSE s

\* The AutoScaler's fields at the moment a read of the pass raises.
pass_until(s, lists, t, read) ==
    IF read = "check_video_scaling.llen" THEN s
    ELSE IF read = "check_eval_scaling.llen" THEN check_video_scaling(s, lists, t)
    ELSE IF read = "check_scale_down.video.llen"
         THEN check_eval_scaling(check_video_scaling(s, lists, t), lists, t)
    ELSE check_scale_down_video(
             check_eval_scaling(check_video_scaling(s, lists, t), lists, t), lists, t)

\* check_scale_down reads a queue's length only for a class whose last
\* activity is set and older than idle_timeout.
pass_makes_read(s, lists, t, read) ==
    LET at == pass_until(s, lists, t, read)
    IN  IF read = "check_scale_down.video.llen"
        THEN at.last_video_activity # NoTime /\ t - at.last_video_activity > idle_timeout
        ELSE IF read = "check_scale_down.eval.llen"
        THEN at.last_eval_activity # NoTime /\ t - at.last_eval_activity > idle_timeout
        ELSE TRUE

\* Mutant: the exception of a pass ends monitor_and_scale.
MonitorTickRaises_ends_loop ==
    /\ monitor_pc = "loop"
    /\ enabled
    /\ monitor_pc' = "returned"
    /\ UNCHANGED <<now, clock_steps, redis_lists, redis_keys, queue_manager, auto_scaler,
                   runpod, scaling_enabled, enabled, last_activity, cost,
                   queue_loop_pc, scaling_loop_pc, issued, dispatched>>

\* A pass of monitor_and_scale in which a read of Redis raises: the except
\* clause prints and sleeps 60 s.
MonitorTickRaises ==
    /\ monitor_pc = "loop"
    /\ enabled
    /\ \E read \in TickReads :
         /\ pass_makes_read(ScalerFields, redis_lists, now, read)
         /\ LET s == pass_until(ScalerFields, redis_lists, now, read)
            IN  /\ runpod' = [runpod EXCEPT ![ScalerRM] = s.runpod_manager]
                /\ cost' = s.cost_tracker
                /\ enabled' = s.enabled
                /\ last_activity' = [last_activity EXCEPT
                                       ![VIDEO_GENERATION] = s.last_video_activity,
                                       ![EVALUATION] = s.last_eval_activity]
    /\ monitor_pc' = "backoff"
    /\ UNCHANGED <<now, clock_steps, redis_lists, redis_keys, queue_manager, auto_scaler,
                   scaling_enabled, queue_loop_pc, scaling_loop_pc, issued, dispatched>>

\* The sleep of the except clause is over: the loop tests self.enabled again.
MonitorBackoffWake ==
    /\ monitor_pc = "backoff"
    /\ monitor_pc' = "loop"
    /\ UNCHANGED <<now, clock_steps, redis_lists, redis_keys, queue_manager, auto_scaler,
                   runpod, scaling_enabled, enabled, last_activity, cost,
                   queue_loop_pc, scaling_loop_pc, issued, dispatched>>

\* An enqueue whose check_scaling_needs raises at its read of the queue
\* length: the task has been pushed, no start is issued and the exception
\* leaves queue_video_generation / queue_evaluation, which returns no task id.
EnqueueRaises(m, task_type, task_data) ==
    /\ Constructed(m)
    /\ scaling_enabled[m]
    /\ llen(redis_lists, "video_generation_queue")
           + llen(redis_lists, "evaluation_queue") < MaxTasks
    /\ redis_lists' = lpush(redis_lists, queue_name(task_type), json_dumps(task_data))
    /\ UNCHANGED <<now, clock_steps, redis_keys, queue_manager, auto_scaler, runpod,
                   scaling_enabled, enabled, last_activity, cost, monitor_pc,
                   queue_loop_pc, scaling_loop_pc, issued, dispatched>>

QueueVideoGenerationRaises ==
    \E audio_data \in Payloads, session_id \in SessionIds :
        EnqueueRaises(BackgroundQM, VIDEO_GENERATION,
                      video_task_data(audio_data, session_id, now))

QueueEvaluationRaises ==
    \E video_data \in Payloads, session_id \in SessionIds, question_id \in QuestionIds :
        EnqueueRaises(BackgroundQM, EVALUATION,
                      eval_task_data(video_data, session_id, question_id, now))

\* The scaling operations with passes that may raise.
FaultNext ==
    \/ ScalingNext
    \/ MonitorTickRaises
    \/ MonitorBackoffWake

FaultSpec == Init /\ [][FaultNext]_vars

\* The scaling operations with enqueues that may raise.
EnqueueFaultNext ==
    \/ ScalingNext
    \/ QueueVideoGenerationRaises
    \/ QueueEvaluationRaises

EnqueueFaultSpec == Init /\ [][EnqueueFaultNext]_vars

\* asyncio.sleep(60) returns, and the loop, once awaited, goes on.
FairFaultSpec ==
    /\ FaultSpec
    /\ WF_vars(MonitorBackoffWake)
    /\ WF_vars(MonitorTick)

\* C21: an exception raised inside a pass of monitor_and_scale never ends the
\* loop: monitor_and_scale has not returned while enabled is true, and after
\* the exception (the 60 s sleep of the except clause) the loop is back at its
\* head with enabled true, where the next pass runs.
C21_LoopSurvivesException ==
    /\ [](monitor_pc = "returned" => ~enabled)
    /\ (monitor_pc = "backoff") ~> (monitor_pc = "loop" /\ enabled)

\* A pass has raised at the read of check_eval_scaling, after
\* check_video_scaling had recorded activity, and the loop sleeps its 60 s.
C21_Witness ==
    /\ monitor_pc = "backoff"
    /\ last_activity[VIDEO_GENERATION] = now
    /\ last_activity[EVALUATION] = NoTime
    /\ llen(redis_lists, "evaluation_queue") > 0

-----------------------------------------------------------------------------
(* The system as start_background_tasks starts it: the two loops it creates, *)
(* the request handlers and the clock.  Nothing in it calls                  *)
(* monitor_and_scale.  Pending tasks are taken off their queue as in         *)
(* DrainSpec.                                                                *)

RunningNext ==
    \/ StartBackgroundTasks
    \/ AdvanceClock
    \/ QueueVideoGeneration
    \/ QueueEvaluation
    \/ MarkTaskCompleted
    \/ QueueLoopProcess
    \/ QueueLoopSleep
    \/ ScalingLoopCheck
    \/ ScalingLoopSleep
    \/ \E task_type \in TaskType : PendingRemoved(task_type)

RunningSpec == Init /\ [][RunningNext]_vars

\* Both loops are asyncio tasks that run again after each sleep.
FairRunningSpec ==
    /\ RunningSpec
    /\ WF_vars(QueueLoopProcess)
    /\ WF_vars(QueueLoopSleep)
    /\ WF_vars(ScalingLoopCheck)
    /\ WF_vars(ScalingLoopSleep)

\* Some RunPodManager of the process holds a running instance of the class.
InstanceRunning(task_type) ==
    \E r \in RunPodManagers : get_server_status(runpod[r], task_type) = "running"

-----------------------------------------------------------------------------
(* GPUCommunicationService: generate_video and evaluate_interview *)

\* What can happen to one call: an input file cannot be read, the connection
\* fails, the total timeout of 300 s runs out, or a response arrives.
RequestOutcomes ==
    {"unreadable_file", "connection_error", "timeout",
     "http_200", "http_200_unparsable", "http_500"}

http_status(outcome) ==
    IF outcome \in {"http_200", "http_200_unparsable"} THEN 200
    ELSE IF outcome = "http_500" THEN 500
    ELSE 0

\* The exception an outcome raises inside the try block, with its str().
\* asyncio.TimeoutError carries no message.
exception_of(outcome) ==
    IF outcome = "unreadable_file"
    THEN [type |-> "FileNotFoundError", base |-> "OSError",
          str |-> <<"[Errno 2] No such file or directory">>]
    ELSE IF outcome = "connection_error"
    THEN [type |-> "ClientConnectorError", base |-> "ClientError",
          str |-> <<"Cannot connect to host">>]
    ELSE IF outcome = "timeout"
    THEN [type |-> "TimeoutError", base |-> "Exception", str |-> <<>>]
    ELSE [type |-> "ContentTypeError", base |-> "ClientError",
          str |-> <<"Attempt to decode JSON with unexpected mimetype">>]

\* The JSON body of a 200 response and the text of another response.
response_json == [task_id |-> <<"gpu", "_", "task">>]
response_text == <<"Internal Server Error">>

\* The try block of a dispatch operation: what it returns or raises.
dispatch_try(service, outcome) ==
    IF outcome = "http_200"
    THEN [returned |-> [success |-> TRUE, result |-> response_json]]
    ELSE IF outcome = "http_500"
    THEN [returned |-> [success |-> FALSE,
                        error |-> <<service, " service error: ",
                                    ToString(http_status(outcome))>>,
                        details |-> response_text]]
    ELSE [raised |-> exception_of(outcome)]

\* Mutant: the except clause catches the errors of the HTTP client only.
generate_video_catches_client_errors(outcome) ==
    LET body == dispatch_try("Video", outcome)
    IN  IF "raised" \in DOMAIN body /\ body.raised.base = "ClientError"
        THEN [returned |-> [success |-> FALSE, error |-> body.raised.str]]
        ELSE body

\* generate_video: 'except Exception' turns every exception of the try block
\* into a returned error.
generate_video(outcome) ==
    LET body == dispatch_try("Video", outcome)
    IN  IF "raised" \in DOMAIN body
        THEN [returned |-> [success |-> FALSE, error |-> body.raised.str]]
        ELSE body

evaluate_interview(outcome) ==
    LET body == dispatch_try("Evaluation", outcome)
    IN  IF "raised" \in DOMAIN body
        THEN [returned |-> [success |-> FALSE, error |-> body.raised.str]]
        ELSE body

\* gpu_comm.generate_video is called for a session and returns.
GenerateVideo ==
    /\ \E session_id \in SessionIds, outcome \in RequestOutcomes :
         dispatched' = <<[op |-> "generate_video",
                          task_type |-> VIDEO_GENERATION,
                          session_id |-> session_id,
                          outcome |-> outcome,
                          call |-> generate_video(outcome)]>>
    /\ UNCHANGED <<now, clock_steps, redis_lists, redis_keys, queue_manager, auto_scaler,
                   runpod, scaling_enabled, enabled, last_activity, cost, monitor_pc,
                   queue_loop_pc, scaling_loop_pc, issued>>

\* gpu_comm.evaluate_interview is called and returns.
EvaluateInterview ==
    /\ \E outcome \in RequestOutcomes :
         dispatched' = <<[op |-> "evaluate_interview",
                          task_type |-> EVALUATION,
                          outcome |-> outcome,
                          call |-> evaluate_interview(outcome)]>>
    /\ UNCHANGED <<now, clock_steps, redis_lists, redis_keys, queue_manager, auto_scaler,
                   runpod, scaling_enabled, enabled, last_activity, cost, monitor_pc,
                   queue_loop_pc, scaling_loop_pc, issued>>

\* The scaling operations together with the calls of gpu_comm.
DispatchNext ==
    \/ ScalingNext
    \/ GenerateVideo
    \/ EvaluateInterview

DispatchSpec == Init /\ [][DispatchNext]_vars

\* C24: generate_video and evaluate_interview let no exception escape: for
\* every outcome of the request the call returns a value, with success true
\* and a result only on HTTP 200, and with success false and an error string,
\* and no result, in every other case.
C24_DispatchNeverRaises ==
    dispatched # <<>> =>
        LET call == dispatched[1].call
            outcome == dispatched[1].outcome
        IN  /\ "returned" \in DOMAIN call
            /\ "raised" \notin DOMAIN call
            /\ LET value == call.returned
               IN  /\ value.success \in BOOLEAN
                   /\ value.success =>
                          /\ http_status(outcome) = 200
                          /\ "result" \in DOMAIN value
                          /\ "error" \notin DOMAIN value
                   /\ ~value.success =>
                          /\ "error" \in DOMAIN value
                          /\ value.error \in Seq(STRING)
                          /\ "result" \notin DOMAIN value
                   /\ http_status(outcome) # 200 => ~value.success
                   /\ outcome = "http_200" => value.success

\* A generate_video call whose request timed out has returned, and so has, in
\* another state, one whose input file could not be read.
C24_Witness ==
    /\ dispatched # <<>>
    /\ dispatched[1].op = "generate_video"
    /\ dispatched[1].outcome \in {"timeout", "unreadable_file"}
    /\ "returned" \in DOMAIN dispatched[1].call
    /\ ~dispatched[1].call.returned.success

\* The ids of the tasks of a session in the video queue.
VideoTasksOfSession(session_id) ==
    {json_loads(redis_lists["video_generation_queue"][i]).task_id :
        i \in {j \in 1..Len(redis_lists["video_generation_queue"]) :
                 json_loads(redis_lists["video_generation_queue"][j]).session_id
                     = session_id}}

\* The step is a call of a dispatch operation that has returned.
DispatchStep == dispatched' # dispatched

\* C23: after a dispatch of a session's video task has run into the timeout,
\* the status query returns the task as FAILED with an error, and the timeout
\* stops no instance.
C23_TimeoutFailsTask ==
    [][(/\ DispatchStep
        /\ dispatched'[1].op = "generate_video"
        /\ dispatched'[1].outcome = "timeout") =>
          /\ \A task_id \in VideoTasksOfSession(dispatched'[1].session_id) :
                LET view == get_task_status(redis_keys', redis_lists', now', task_id)
                IN  HasStatus(view, {FAILED}) /\ "error" \in DOMAIN view
          /\ \A r \in RunPodManagers, task_type \in TaskType :
                ~StopIssued(r, task_type)]_vars

-----------------------------------------------------------------------------
(* api/v1/endpoints/gpu.py: GET /tasks/{task_id} *)

\* Python's truth value of what get_gpu_task_status returns: a dict is false
\* only when it is empty.
truthy(value) == DOMAIN value # {}

\* The endpoint's response: the HTTPException it raises or the body it returns.
endpoint_get_task_status(qm, keys, lists, t, task_id) ==
    LET task_status == get_gpu_task_status(qm, keys, lists, t, task_id)
    IN  IF "raised" \in DOMAIN task_status
        THEN [status_code |-> 500, detail |-> task_status.raised]
        ELSE IF ~truthy(task_status)
        THEN [status_code |-> 404, detail |-> "Task not found"]
        ELSE [status_code |-> 200, body |-> task_status]

\* Ids a caller may ask for: those of the tasks the inputs can build.
ProbeIds ==
    {video_task_id(session_id, t) : session_id \in SessionIds, t \in CallTimes}
        \cup {eval_task_id(session_id, question_id, t) :
                 session_id \in SessionIds, question_id \in QuestionIds, t \in CallTimes}

\* The id matches no pending task and no retained completed task.
UnknownId(task_id) == ~InSomeQueue(task_id) /\ Retained(task_id) = None

\* C25: for a task id that matches no pending and no retained completed task
\* the task-status endpoint answers 404 'Task not found', never a normal
\* response.
C25_UnknownIdIs404 ==
    queue_manager # None =>
        \A task_id \in ProbeIds :
            UnknownId(task_id) =>
                LET response == endpoint_get_task_status(queue_manager, redis_keys,
                                                         redis_lists, now, task_id)
                IN  /\ response.status_code = 404
                    /\ response.detail = "Task not found"

\* C27: the pod handle of a class is created or cleared only by the
\* Auto-Scaler: every step that changes a handle is a pass of
\* monitor_and_scale; no enqueue with its scaling check, no status lookup, no
\* completion and no dispatch call changes one.
C27_HandleMutatedOnlyByAutoScaler ==
    [][(\E r \in RunPodManagers, task_type \in TaskType :
            pod_id_of(runpod'[r], task_type) # pod_id_of(runpod[r], task_type))
          => TickPass]_vars

\* The call that has just returned sent a request for a task that is pending:
\* a video task of the call's session, or a task of the evaluation queue.
DispatchSendsPendingTask ==
    /\ DispatchStep
    /\ http_status(dispatched'[1].outcome) # 0
    /\ IF dispatched'[1].op = "generate_video"
       THEN VideoTasksOfSession(dispatched'[1].session_id) # {}
       ELSE llen(redis_lists, "evaluation_queue") > 0

-----------------------------------------------------------------------------
(* The views of get_task_status *)

\* The operations that write what get_task_status reads: the enqueues, the
\* completion and the clock that expires the completed records.
StatusNext ==
    \/ StartBackgroundTasks
    \/ AdvanceClock
    \/ QueueVideoGeneration
    \/ QueueEvaluation
    \/ MarkTaskCompleted

StatusSpec == Init /\ [][StatusNext]_vars

\* C31: the view get_task_status returns for an existing task carries a result
\* or an error only with status COMPLETED or FAILED, and never both.
C31_ResultErrorOnlyTerminal ==
    \A task_id \in IssuedIds :
        LET view == StatusView(task_id)
        IN  view # NotFound =>
                /\ ("result" \in DOMAIN view \/ "error" \in DOMAIN view)
                       => HasStatus(view, {COMPLETED, FAILED})
                /\ ~("result" \in DOMAIN view /\ "error" \in DOMAIN view)

\* One task's view is the completed record with its result, and another
\* task's view is the pending item, with neither result nor error.
C31_Witness ==
    \E a, b \in IssuedIds :
        /\ HasStatus(StatusView(a), {COMPLETED})
        /\ "result" \in DOMAIN StatusView(a)
        /\ HasStatus(StatusView(b), {PENDING})
        /\ {"result", "error"} \cap DOMAIN StatusView(b) = {}

-----------------------------------------------------------------------------
(* Scale-up at enqueue.  scaling_enabled is a plain field that the           *)
(* constructor sets and no method writes: it keeps the value its owner gives *)
(* it.  ScalingFlagSpec gives each GPUQueueManager either value.             *)

ScalingFlagInit ==
    /\ now = 0
    /\ clock_steps = 0
    /\ redis_lists = [q \in QueueNames |-> <<>>]
    /\ redis_keys = {}
    /\ queue_manager = None
    /\ auto_scaler = None
    /\ runpod = [r \in RunPodManagers |-> NewRunPodManager]
    /\ scaling_enabled \in [QueueManagers -> BOOLEAN]
    /\ enabled = TRUE
    /\ last_activity = [t \in TaskType |-> NoTime]
    /\ cost = NewCostTracker
    /\ monitor_pc = "not_called"
    /\ queue_loop_pc = "not_started"
    /\ scaling_loop_pc = "not_started"
    /\ issued = EmptyBag
    /\ dispatched = <<>>

ScalingFlagSpec == ScalingFlagInit /\ [][ScalingNext]_vars

\* C32: an enqueue made while the queue manager's RunPodManager reports the
\* class stopped and scaling_enabled is true issues a start for VIDEO_GENERATION
\* when it is the first of an empty video queue, issues none when it is the
\* first of an empty evaluation queue and issues one for EVALUATION when it is
\* the second; with scaling_enabled false an enqueue issues no start.
C32_EnqueueThresholds ==
    [][\A task_type \in TaskType :
          EnqueueStep(task_type) =>
              LET before == llen(redis_lists, queue_name(task_type))
                  stopped == get_server_status(runpod[BackgroundQM], task_type) = "stopped"
                  started == StartIssued(BackgroundQM, task_type)
              IN  /\ (scaling_enabled[BackgroundQM] /\ stopped) =>
                         /\ (task_type = VIDEO_GENERATION /\ before = 0) => started
                         /\ (task_type = EVALUATION /\ before = 0) => ~started
                         /\ (task_type = EVALUATION /\ before = 1) => started
                  /\ ~scaling_enabled[BackgroundQM] =>
                         \A r \in RunPodManagers, c \in TaskType : ~StartIssued(r, c)]_vars

\* The second evaluation enqueue, made later than the first, has started the
\* evaluation pod: the pod carries the time of the second enqueue.
C32_Witness ==
    LET queue == redis_lists["evaluation_queue"]
    IN  /\ scaling_enabled[BackgroundQM]
        /\ Len(queue) = 2
        /\ json_loads(queue[1]).created_at > json_loads(queue[2]).created_at
        /\ runpod[BackgroundQM].eval_pod_id
               = pod_name(EVALUATION, json_loads(queue[1]).created_at)

-----------------------------------------------------------------------------
(* The two classes side by side *)

\* The fields of a class in the AutoScaler's record: its handle and its
\* activity time.
class_fields(s, task_type) ==
    IF task_type = VIDEO_GENERATION
    THEN <<s.runpod_manager.video_pod_id, s.last_video_activity>>
    ELSE <<s.runpod_manager.eval_pod_id, s.last_eval_activity>>

\* The condition of check_scale_down's branch for a class.
scale_down_condition(s, lists, t, task_type) ==
    /\ class_fields(s, task_type)[2] # NoTime
    /\ t - class_fields(s, task_type)[2] > idle_timeout
    /\ llen(lists, queue_name(task_type)) = 0

-----------------------------------------------------------------------------
(* The pending queues over time *)

\* The items a list held are still its last items, in the same order.
KeepsItems(before, after) ==
    /\ Len(after) >= Len(before)
    /\ SubSeq(after, Len(after) - Len(before) + 1, Len(after)) = before

\* C34: no step takes an item off video_generation_queue or evaluation_queue:
\* each queue keeps its items and its length never decreases; and no step
\* made while a class's queue is non-empty stops an instance of the class.
C34_QueueNeverShrinks ==
    [][\A task_type \in TaskType :
          /\ KeepsItems(redis_lists[queue_name(task_type)],
                        redis_lists'[queue_name(task_type)])
          /\ llen(redis_lists, queue_name(task_type)) > 0 =>
                 \A r \in RunPodManagers : ~StopIssued(r, task_type)]_vars

\* A task has its completed record and is still in its queue, and a pass that
\* ran more than idle_timeout after the AutoScaler started the video pod has
\* left the pod running.
C34_Witness ==
    /\ \E task_id \in IssuedIds :
         /\ Retained(task_id) # None
         /\ Pending(VIDEO_GENERATION, task_id) # {}
    /\ runpod[ScalerRM].video_pod_id = pod_name(VIDEO_GENERATION, 0)
    /\ last_activity[VIDEO_GENERATION] > idle_timeout

-----------------------------------------------------------------------------
(* The cost totals of the running program *)

\* The ticks and the enqueues of the program as it is constructed.
ScalingSpec == Init /\ [][ScalingNext]_vars

-----------------------------------------------------------------------------
(* After the emergency shutdown.  No code sets enabled back to true or calls *)
(* monitor_and_scale; the owner of the AutoScaler does both from outside.    *)

\* The owner assigns auto_scaler.enabled = True.
Reenable ==
    /\ auto_scaler # None
    /\ ~enabled
    /\ enabled' = TRUE
    /\ UNCHANGED <<now, clock_steps, redis_lists, redis_keys, queue_manager, auto_scaler,
                   runpod, scaling_enabled, last_activity, cost, monitor_pc,
                   queue_loop_pc, scaling_loop_pc, issued, dispatched>>

\* A caller awaits monitor_and_scale() again after it has returned.
MonitorCallAgain ==
    /\ monitor_pc = "returned"
    /\ monitor_pc' = "loop"
    /\ UNCHANGED <<now, clock_steps, redis_lists, redis_keys, queue_manager, auto_scaler,
                   runpod, scaling_enabled, enabled, last_activity, cost,
                   queue_loop_pc, scaling_loop_pc, issued, dispatched>>

ReenableNext ==
    \/ ScalingNext
    \/ Reenable
    \/ MonitorCallAgain

\* The totals the tracker starts with: none, or one of the two limits exceeded.
ReenableInit == CostInit /\ (cost = NewCostTracker \/ limit_exceeded(cost))

ReenableSpec == ReenableInit /\ [][ReenableNext]_vars

\* monitor_and_scale, once awaited, runs on after each sleep.
FairReenableSpec == ReenableSpec /\ WF_vars(MonitorTick)

\* The AutoScaler's own handles and activity times: what a pass writes.
TickEffects == <<runpod[ScalerRM], last_activity>>

-----------------------------------------------------------------------------
(* Inside one pass of monitor_and_scale *)

\* The two scale-up checks of a pass.
scale_up_checks(s, lists, t) ==
    check_eval_scaling(check_video_scaling(s, lists, t), lists, t)

\* C37: in one pass of monitor_and_scale, a class for which the scale-up check
\* has issued a start gets no stop from the scale-down check of the same pass,
\* however late in the pass check_scale_down reads the clock.
C37_NoStartAndStopInOneTick ==
    (monitor_pc = "loop" /\ enabled) =>
        \A task_type \in TaskType, t2 \in CallTimes :
            LET after_up == scale_up_checks(ScalerFields, redis_lists, now)
                after_down == check_scale_down(after_up, redis_lists, t2)
            IN  (/\ pod_id_of(runpod[ScalerRM], task_type) = None
                 /\ pod_id_of(after_up.runpod_manager, task_type) # None)
                    => pod_id_of(after_down.runpod_manager, task_type) # None

\* A pass is about to start an evaluation instance for a class whose recorded
\* activity is older than idle_timeout.
C37_Witness ==
    /\ monitor_pc = "loop"
    /\ enabled
    /\ ScaleUpDue(EVALUATION)
    /\ last_activity[EVALUATION] # NoTime
    /\ now - last_activity[EVALUATION] > idle_timeout

-----------------------------------------------------------------------------
(* The pods of the enqueue path and the AutoScaler.  CostDrainSpec has both  *)
(* of the AutoScaler's stops: the idle stop (tasks leave their queue as in   *)
(* DrainSpec) and the emergency shutdown (totals as in CostSpec).            *)

CostDrainSpec == CostInit /\ [][DrainNext]_vars

-----------------------------------------------------------------------------
(* The cost gate and the limits.  CostGridSpec gives the tracker every pair  *)
(* of a daily and a monthly total taken at and around the limits.            *)

CostGrid ==
    {[current_daily_cost |-> d, current_monthly_cost |-> m] :
        d \in {0, daily_limit - estimated_hourly_cost,
                  daily_limit - estimated_hourly_cost + 1, daily_limit, daily_limit + 1},
        m \in {0, monthly_limit - estimated_hourly_cost,
                  monthly_limit - estimated_hourly_cost + 1, monthly_limit,
                  monthly_limit + 1}}

CostGridInit ==
    /\ now = 0
    /\ clock_steps = 0
    /\ redis_lists = [q \in QueueNames |-> <<>>]
    /\ redis_keys = {}
    /\ queue_manager = None
    /\ auto_scaler = None
    /\ runpod = [r \in RunPodManagers |-> NewRunPodManager]
    /\ scaling_enabled = [m \in QueueManagers |-> TRUE]
    /\ enabled = TRUE
    /\ last_activity = [t \in TaskType |-> NoTime]
    /\ cost \in CostGrid
    /\ monitor_pc = "not_called"
    /\ queue_loop_pc = "not_started"
    /\ scaling_loop_pc = "not_started"
    /\ issued = EmptyBag
    /\ dispatched = <<>>

CostGridSpec == CostGridInit /\ [][ScalingNext]_vars

\* C39: whenever limit_exceeded() is true, can_start_instance() is false, and
\* a pass of the AutoScaler that runs with a limit exceeded starts no
\* instance.
C39_NoStartWhenLimitExceeded ==
    /\ [](limit_exceeded(cost) => ~can_start_instance(cost))
    /\ [][(TickPass /\ limit_exceeded(cost)) =>
             \A task_type \in TaskType : ~StartIssued(ScalerRM, task_type)]_vars

\* A pass has run with both limits exceeded by one cent and the video queue at
\* its threshold: the AutoScaler holds no pod.
C39_Witness ==
    /\ cost.current_daily_cost = daily_limit + 1
    /\ cost.current_monthly_cost = monthly_limit + 1
    /\ llen(redis_lists, "video_generation_queue") >= video_scale_up_threshold
    /\ last_activity[VIDEO_GENERATION] # NoTime
    /\ runpod[ScalerRM].video_pod_id = None

-----------------------------------------------------------------------------
(* The order of get_task_status's lookups *)

\* C40: for a task id that has a retained completed record, get_task_status
\* returns that record (status COMPLETED with result and completed_at), also
\* when the task is still in a pending queue; it returns the pending entry
\* only when no completed record exists.
C40_CompletedRecordFirst ==
    \A task_id \in IssuedIds :
        LET view == StatusView(task_id)
        IN  /\ Retained(task_id) # None =>
                   /\ view = json_loads(Retained(task_id))
                   /\ HasStatus(view, {COMPLETED})
                   /\ {"result", "completed_at"} \subseteq DOMAIN view
            /\ HasStatus(view, {PENDING}) =>
                   /\ Retained(task_id) = None
                   /\ InSomeQueue(task_id)

\* A task with both a completed record and an entry in its queue is reported
\* from the record, next to a task that has only its entry in the queue, at a
\* time after the completion.
C40_Witness ==
    \E a, b \in IssuedIds :
        /\ Retained(a) # None
        /\ InSomeQueue(a)
        /\ StatusView(a).completed_at < now
        /\ Retained(b) = None
        /\ Pending(EVALUATION, b) # {}
        /\ StatusView(b) = json_loads(redis_lists["evaluation_queue"][1])

=============================================================================
